---- MODULE Spec2Model ----
(***************************************************************************)
(* Vimshottari dasha schedule builder (src/src/dasha/vimshottari.js).      *)
(*                                                                         *)
(* computeVimshottari is modelled as a sequential process: one action per  *)
(* block of the function (validation and set-up, the first Major period,   *)
(* one iteration of each inner for-loop).  The helpers are operators.      *)
(*                                                                         *)
(* Numbers.  The source computes in IEEE doubles holding milliseconds.     *)
(* Here an instant or duration is an integer count of sub-millisecond      *)
(* steps, SubMs steps to the millisecond; a product with a fraction is     *)
(* rounded down to a step.  toISO, which in the source drops the           *)
(* sub-millisecond part of an instant, is the truncation to whole          *)
(* milliseconds.  The year is shortened from 31556952000 ms to 14400 ms so *)
(* that every value fits a 32-bit integer; 14400 keeps the divisibility of *)
(* the source's year by 120 * 120 and by 40.  A longitude is an integer    *)
(* count of thirds of a degree, so that a nakshatra (360/27 degrees) is 40 *)
(* units wide.                                                             *)
(***************************************************************************)
EXTENDS Integers, Sequences, FiniteSets, TLC

VARIABLES
    pc,               \* position in computeVimshottari
    payload,          \* "ok", or which validation of lines 123-128 fails
    birthMs,          \* moment.tz(...).utc().valueOf(), whole milliseconds
    moonSiderealDeg,  \* argument, thirds of a degree
    totalYears,       \* argument
    startLord,        \* const startLord
    capEnd,           \* const capEnd
    mdStartMs,        \* let mdStartMs
    mdEndMs,          \* let mdEndMs
    i,                \* index of the running inner for-loop
    sequence,         \* const sequence (the Major nodes pushed so far)
    segArgs,          \* arguments of a direct call of buildWeightedSegments
    segOut            \* its result

vars == <<pc, payload, birthMs, moonSiderealDeg, totalYears, startLord, capEnd,
          mdStartMs, mdEndMs, i, sequence, segArgs, segOut>>

---------------------------------------------------------------------------
(* Bounds of the model *)

SubMs == 2             \* representable steps per millisecond
MaxTotalYears == 245   \* largest horizon tried
MaxDenseYears == 20    \* every horizon up to this one is tried ...
YearStride == 8        \* ... and beyond it the multiples of YearStride
MaxNegYears == 1       \* most negative horizon tried
LonStep == 130         \* spacing of the longitudes tried (thirds of a degree)
MaxLonK == 9           \* longitudes tried are LonStep * (-1 .. MaxLonK)
BirthMsAbs == 1000     \* birth instants tried are -BirthMsAbs and BirthMsAbs
MaxSegDur == 40        \* longest parent span of a direct allocator call
MaxOrderLen == 3       \* longest lord order of a direct allocator call

---------------------------------------------------------------------------
(* Constants of the source *)

LORDS == <<"Ketu", "Venus", "Sun", "Moon", "Mars", "Rahu", "Jupiter", "Saturn", "Mercury">>

YEARS == [Ketu |-> 7, Venus |-> 20, Sun |-> 6, Moon |-> 10, Mars |-> 7,
          Rahu |-> 18, Jupiter |-> 16, Saturn |-> 19, Mercury |-> 17]

\* milliseconds per year (shortened, see the header)
YEAR_MS == 14400

\* width of a nakshatra, 360 / 27 degrees, in thirds of a degree
NAK_LEN_DEG == 40

\* the 360 of normalize360, in thirds of a degree
FULL_CIRCLE == 27 * NAK_LEN_DEG

\* one year in steps
YearSteps == YEAR_MS * SubMs

---------------------------------------------------------------------------
(* Helpers *)

\* JavaScript's %: the remainder has the sign of the dividend
JsRem(a, b) == IF a >= 0 THEN a % b ELSE 0 - ((0 - a) % b)

normalize360(deg) ==
    LET x == JsRem(deg, FULL_CIRCLE)
    IN  IF x < 0 THEN x + FULL_CIRCLE ELSE x

\* fracElapsed is the numerator of a fraction over NAK_LEN_DEG
nakFromLon(lonDeg) ==
    LET d   == normalize360(lonDeg)
        idx == d \div NAK_LEN_DEG
    IN  [index |-> idx, fracElapsed |-> d - idx * NAK_LEN_DEG]

\* LORDS.indexOf, 0-based
indexOf(lord) == (CHOOSE k \in 1..Len(LORDS) : LORDS[k] = lord) - 1

\* the rotation started one lord too late
rotateFromNext(lord) ==
    LET k == indexOf(lord)
    IN  SubSeq(LORDS, k + 2, Len(LORDS)) \o SubSeq(LORDS, 1, k + 1)

\* LORDS.slice(i).concat(LORDS.slice(0, i))
rotateFromStart(lord) ==
    LET k == indexOf(lord)
    IN  SubSeq(LORDS, k + 1, Len(LORDS)) \o SubSeq(LORDS, 1, k)

\* new Date(ms).toISOString(): the instant cut to whole milliseconds (toward 0)
toISO(ms) == IF ms >= 0 THEN ms \div SubMs ELSE 0 - ((0 - ms) \div SubMs)

\* no clipping: the first argument whatever the second
MinUnclipped(a, b) == a

\* Math.min
Min(a, b) == IF a <= b THEN a ELSE b

\* order.reduce((acc, lord) => acc + weightsYears[lord], 0)
RECURSIVE reduce(_, _)
reduce(order, weightsYears) ==
    IF order = <<>> THEN 0
    ELSE weightsYears[Head(order)] + reduce(Tail(order), weightsYears)

\* the share taken of the whole 120-year cycle, not of the lords in `order`
ShareOfFullCycle(parentDurMs, weight, total) == (parentDurMs * weight) \div 120

\* parentDurMs * (weightsYears[lord] / totalYears), rounded down to a step
Share(parentDurMs, weight, total) == (parentDurMs * weight) \div total

\* The element of a one-element set.  Only({F(v) : v \in {e}}) is F(e) with
\* e evaluated once and bound to v by value, as a JavaScript const is.
Only(S) == CHOOSE x \in S : TRUE

\* the for-loop of lines 59-70, from index k (1-based) on
RECURSIVE segLoop(_, _, _, _, _, _, _, _)
segLoop(k, cursor, out, parentStartMs, parentDurMs, order, weightsYears, total) ==
    IF k > Len(order) THEN out
    ELSE LET segDur == IF k < Len(order)
                       THEN Share(parentDurMs, weightsYears[order[k]], total)
                       ELSE parentStartMs + parentDurMs - cursor
             endMs == cursor + segDur
         IN  segLoop(k + 1, endMs,
                     Append(out, [lord |-> order[k], startMs |-> cursor,
                                  endMs |-> endMs, durationMs |-> segDur]),
                     parentStartMs, parentDurMs, order, weightsYears, total)

buildWeightedSegments(parentStartMs, parentDurMs, order, weightsYears) ==
    Only({segLoop(1, a.start, <<>>, a.start, a.dur, a.order, weightsYears, a.total) :
            a \in {[start |-> parentStartMs, dur |-> parentDurMs, order |-> order,
                    total |-> reduce(order, weightsYears)]}})

\* lines 161-175: the pratyantar list of one antar segment.  The
\* interpretation field, a lookup in interpretations.json keyed by the two
\* lords, is left out here and in antarOf.
pratyantarOf(seg) ==
    Only({[k \in 1..Len(pdSegs) |->
              [lord |-> pdSegs[k].lord,
               start |-> toISO(pdSegs[k].startMs),
               end |-> toISO(pdSegs[k].endMs)]] :
          pdSegs \in {buildWeightedSegments(seg.startMs, seg.durationMs,
                                            rotateFromStart(seg.lord), YEARS)}})

\* lines 157-184: antarSegs.map(...)
antarOf(antarSegs) ==
    [k \in 1..Len(antarSegs) |->
        [lord |-> antarSegs[k].lord,
         start |-> toISO(antarSegs[k].startMs),
         end |-> toISO(antarSegs[k].endMs),
         pratyantar |-> Only({pratyantarOf(seg) : seg \in {antarSegs[k]}})]]

\* pushMD: the sequence with one Major node appended.  days holds mdDur,
\* the node's days field times MS_PER_DAY.
pushMD(seq, mdLord, mdStart, mdEnd) ==
    Append(seq,
           [lord |-> mdLord,
            start |-> toISO(mdStart),
            end |-> toISO(mdEnd),
            years |-> YEARS[mdLord],
            days |-> mdEnd - mdStart,
            antar |-> Only({antarOf(antarSegs) :
                              antarSegs \in {buildWeightedSegments(mdStart, mdEnd - mdStart,
                                                                   rotateFromStart(mdLord), YEARS)}})])

\* the elapsed part of the period instead of the remaining part
mdElapsedMs(lord, fracElapsed) ==
    (YearSteps * YEARS[lord] * fracElapsed) \div NAK_LEN_DEG

\* mdTotalMs - mdTotalMs * nak.fracElapsed (lines 140-142)
mdRemainingMs(lord, fracElapsed) ==
    LET mdTotalMs == YearSteps * YEARS[lord]
        elapsedMs == (mdTotalMs * fracElapsed) \div NAK_LEN_DEG
    IN  mdTotalMs - elapsedMs

---------------------------------------------------------------------------
(* computeVimshottari *)

MoonDegs == {LonStep * k : k \in (0 - 1)..MaxLonK}
TotalYearsSet ==
    {t \in (0 - MaxNegYears)..MaxTotalYears : t <= MaxDenseYears \/ t % YearStride = 0}
BirthMsSet == {0 - BirthMsAbs, BirthMsAbs}
NoLord == "none"

Init ==
    /\ pc = "call"
    /\ payload \in {"ok", "missing", "notNumber"}
    /\ IF payload = "ok"
       THEN /\ birthMs \in BirthMsSet
            /\ moonSiderealDeg \in MoonDegs
            /\ totalYears \in TotalYearsSet
       ELSE /\ birthMs = BirthMsAbs
            /\ moonSiderealDeg = 0
            /\ totalYears = 120
    /\ startLord = NoLord
    /\ capEnd = 0
    /\ mdStartMs = 0
    /\ mdEndMs = 0
    /\ i = 0
    /\ sequence = <<>>
    /\ segArgs = <<>>
    /\ segOut = <<>>

\* lines 123-148: the payload check, then the locals
Enter ==
    /\ pc = "call"
    /\ IF payload # "ok"
       THEN /\ pc' = "thrown"
            /\ UNCHANGED <<startLord, capEnd, mdStartMs, mdEndMs>>
       ELSE LET nak == nakFromLon(moonSiderealDeg)
                lord == LORDS[(nak.index % 9) + 1]
                birth == birthMs * SubMs
                cap == birth + YearSteps * totalYears
            IN  /\ startLord' = lord
                /\ capEnd' = cap
                /\ mdStartMs' = birth
                /\ mdEndMs' = Min(birth + mdRemainingMs(lord, nak.fracElapsed), cap)
                /\ pc' = "first"
    /\ UNCHANGED <<payload, birthMs, moonSiderealDeg, totalYears, i, sequence,
                   segArgs, segOut>>

\* the early return taken only strictly past the cap
strictlyPastCap(mdStart, cap) == mdStart > cap

\* line 200: if (mdStartMs >= capEnd)
reachedCap(mdStart, cap) == mdStart >= cap

\* lines 196-202: the first (partial) Major period and the early return
FirstMD ==
    /\ pc = "first"
    /\ sequence' = pushMD(sequence, startLord, mdStartMs, mdEndMs)
    /\ mdStartMs' = mdEndMs
    /\ IF reachedCap(mdEndMs, capEnd)
       THEN pc' = "done" /\ i' = i
       ELSE pc' = "loop1" /\ i' = 1
    /\ UNCHANGED <<payload, birthMs, moonSiderealDeg, totalYears, startLord,
                   capEnd, mdEndMs, segArgs, segOut>>

\* the loop body with the cursor left where it was after a full period
LoopBodyStuck(here, next, first) ==
    LET cycleOrder == rotateFromStart(startLord)
        lord == cycleOrder[i + 1]
        mdEnd == mdStartMs + YearSteps * YEARS[lord]
    IN  IF mdEnd > capEnd
        THEN /\ sequence' = pushMD(sequence, lord, mdStartMs, capEnd)
             /\ pc' = "done"
             /\ UNCHANGED <<mdStartMs, i>>
        ELSE /\ sequence' = pushMD(sequence, lord, mdStartMs, mdEnd)
             /\ UNCHANGED mdStartMs
             /\ IF i + 1 < Len(cycleOrder)
                THEN pc' = here /\ i' = i + 1
                ELSE pc' = next /\ i' = first

\* the body shared by the two inner loops (lines 210-221 and 226-236), then
\* the loop's increment and test: at the end of the loop, control passes to
\* `next`, starting at index `first`
LoopBody(here, next, first) ==
    LET cycleOrder == rotateFromStart(startLord)
        lord == cycleOrder[i + 1]
        durMs == YearSteps * YEARS[lord]
        mdEnd == mdStartMs + durMs
    IN  IF mdEnd > capEnd
        THEN /\ sequence' = pushMD(sequence, lord, mdStartMs, capEnd)
             /\ pc' = "done"
             /\ UNCHANGED <<mdStartMs, i>>
        ELSE /\ sequence' = pushMD(sequence, lord, mdStartMs, mdEnd)
             /\ mdStartMs' = mdEnd
             /\ IF i + 1 < Len(cycleOrder)
                THEN pc' = here /\ i' = i + 1
                ELSE pc' = next /\ i' = first

\* lines 209-222: for (let i = 1; ...)
Loop1 ==
    /\ pc = "loop1"
    /\ LoopBody("loop1", "loop2", 0)
    /\ UNCHANGED <<payload, birthMs, moonSiderealDeg, totalYears, startLord,
                   capEnd, mdEndMs, segArgs, segOut>>

\* lines 225-237: for (let i = 0; ...), then back to the top of for (;;)
Loop2 ==
    /\ pc = "loop2"
    /\ LoopBody("loop2", "loop1", 1)
    /\ UNCHANGED <<payload, birthMs, moonSiderealDeg, totalYears, startLord,
                   capEnd, mdEndMs, segArgs, segOut>>

Next == Enter \/ FirstMD \/ Loop1 \/ Loop2

Spec == Init /\ [][Next]_vars

\* The function is synchronous code run to completion: a step that can be
\* taken is taken.
FairSpec == Spec /\ WF_vars(Next)

---------------------------------------------------------------------------
(* A direct call of buildWeightedSegments *)

\* the first n lords of the cycle rotated to `lord`
OrderFrom(lord, n) == SubSeq(rotateFromStart(lord), 1, n)

SegInit ==
    /\ pc = "seg"
    /\ payload = "ok"
    /\ birthMs = 0
    /\ moonSiderealDeg = 0
    /\ totalYears = 0
    /\ startLord = NoLord
    /\ capEnd = 0
    /\ mdStartMs = 0
    /\ mdEndMs = 0
    /\ i = 0
    /\ sequence = <<>>
    /\ \E s \in {0, BirthMsAbs}, d \in 0..MaxSegDur, l \in 1..Len(LORDS), n \in 1..MaxOrderLen :
          segArgs = [parentStartMs |-> s, parentDurMs |-> d, order |-> OrderFrom(LORDS[l], n)]
    /\ segOut = <<>>

SegCall ==
    /\ pc = "seg"
    /\ segOut' = buildWeightedSegments(segArgs.parentStartMs, segArgs.parentDurMs,
                                       segArgs.order, YEARS)
    /\ pc' = "segDone"
    /\ UNCHANGED <<payload, birthMs, moonSiderealDeg, totalYears, startLord, capEnd,
                   mdStartMs, mdEndMs, i, sequence, segArgs>>

SegNext == SegCall

SegSpec == SegInit /\ [][SegNext]_vars

---------------------------------------------------------------------------
(* Vocabulary of the properties *)

Last(seq) == seq[Len(seq)]

\* the fixed order of the lords, positions 0..8, read cyclically
Cycle == <<"Ketu", "Venus", "Sun", "Moon", "Mars", "Rahu", "Jupiter", "Saturn", "Mercury">>
LordAt(n) == Cycle[(n % 9) + 1]
PosOf(lord) == CHOOSE n \in 0..8 : Cycle[n + 1] = lord

\* the lord that follows `lord` in the fixed cycle, Mercury wrapping to Ketu
NextLord(lord) == LordAt(PosOf(lord) + 1)

\* the cycle read off from `lord`
CycleFrom(lord) == [k \in 1..9 |-> LordAt(PosOf(lord) + k - 1)]

\* the nakshatra (0..26) the moon longitude falls in, and how far into it
\* (in NAK_LEN_DEG-ths of the nakshatra)
NakIdx ==
    CHOOSE idx \in 0..26 : \E r \in 0..(NAK_LEN_DEG - 1) :
        (moonSiderealDeg - (idx * NAK_LEN_DEG + r)) % (27 * NAK_LEN_DEG) = 0
NakRem ==
    CHOOSE r \in 0..(NAK_LEN_DEG - 1) :
        (moonSiderealDeg - (NakIdx * NAK_LEN_DEG + r)) % (27 * NAK_LEN_DEG) = 0

Smaller(a, b) == IF a < b THEN a ELSE b

LordsOf(nodes) == [k \in 1..Len(nodes) |-> nodes[k].lord]

HorizonMs == birthMs + totalYears * YEAR_MS

Valid == payload = "ok"

RECURSIVE SumDays(_)
SumDays(seq) == IF seq = <<>> THEN 0 ELSE Head(seq).days + SumDays(Tail(seq))

RECURSIVE SumSpans(_)
SumSpans(nodes) ==
    IF nodes = <<>> THEN 0 ELSE (Head(nodes).end - Head(nodes).start) + SumSpans(Tail(nodes))

\* `children` are in start order, back to back, from pStart to pEnd
Tiles(children, pStart, pEnd) ==
    /\ Len(children) >= 1
    /\ children[1].start = pStart
    /\ Last(children).end = pEnd
    /\ \A k \in 1..Len(children) : children[k].start <= children[k].end
    /\ \A k \in 2..Len(children) : children[k].start = children[k - 1].end
    /\ SumSpans(children) = pEnd - pStart

InLoop == pc \in {"loop1", "loop2"}

---------------------------------------------------------------------------
(* Properties *)

\* C1: every Major node after the first has as its lord the cyclic successor
\* of the previous Major node's lord, for every horizon and starting lord.
C1_MajorLordsFollowCycle ==
    (Valid /\ totalYears > 0) =>
        \A k \in 2..Len(sequence) : sequence[k].lord = NextLord(sequence[k - 1].lord)

\* C2: with totalYears > 0, every emitted Major, Sub and SubSub node has end
\* strictly greater than start; no zero-length Major node is emitted when a
\* Major period ends exactly at the horizon.
C2_EveryNodeHasPositiveLength ==
    (Valid /\ totalYears > 0) =>
        \A k \in 1..Len(sequence) :
            /\ sequence[k].end > sequence[k].start
            /\ \A a \in 1..Len(sequence[k].antar) :
                  /\ sequence[k].antar[a].end > sequence[k].antar[a].start
                  /\ \A p \in 1..Len(sequence[k].antar[a].pratyantar) :
                        sequence[k].antar[a].pratyantar[p].end >
                            sequence[k].antar[a].pratyantar[p].start

\* C3: with totalYears > 0 the Major nodes tile [birthMs, capEnd]: the first
\* starts at birthMs, each later one starts where the previous one ends, none
\* ends after capEnd, and in the returned schedule the last ends exactly at
\* capEnd and the durations sum to totalYears * YEAR_MS.
C3_MajorsTileToHorizon ==
    (Valid /\ totalYears > 0) =>
        /\ sequence # <<>> => sequence[1].start = birthMs
        /\ \A k \in 2..Len(sequence) : sequence[k].start = sequence[k - 1].end
        /\ \A k \in 1..Len(sequence) : sequence[k].end <= HorizonMs
        /\ pc = "done" =>
              /\ Last(sequence).end = HorizonMs
              /\ SumDays(sequence) = totalYears * YEAR_MS * SubMs
              /\ SumSpans(sequence) = totalYears * YEAR_MS

C3_Witness ==
    /\ pc = "done" /\ Valid /\ totalYears > 0
    /\ Len(sequence) >= 3
    /\ Last(sequence).days < YearSteps * Last(sequence).years
    /\ Last(sequence).days > 0

\* C4: for every Major node and every Sub node produced by pushMD, the
\* children are in start order and back to back, the first starts at the
\* parent's start, the last ends at the parent's (clipped) end, the child
\* durations sum to the parent's duration, and no Sub or SubSub node extends
\* past the horizon instant.
C4_ChildrenTileParent ==
    \A k \in 1..Len(sequence) :
        LET md == sequence[k]
        IN  /\ Tiles(md.antar, md.start, md.end)
            /\ \A a \in 1..Len(md.antar) :
                  /\ md.antar[a].end <= HorizonMs
                  /\ Tiles(md.antar[a].pratyantar, md.antar[a].start, md.antar[a].end)
                  /\ \A p \in 1..Len(md.antar[a].pratyantar) :
                        md.antar[a].pratyantar[p].end <= HorizonMs

\* C5: the lords of a Major node's Sub children are the fixed cycle rotated
\* to the Major's lord, and the lords of a Sub node's SubSub children the
\* cycle rotated to the Sub's lord; each rotation holds every lord once.
C5_ChildLordsRotateFromParent ==
    \A k \in 1..Len(sequence) :
        LET md == sequence[k]
        IN  /\ LordsOf(md.antar) = CycleFrom(md.lord)
            /\ {md.antar[a].lord : a \in 1..Len(md.antar)} = {Cycle[n] : n \in 1..9}
            /\ Len(md.antar) = 9
            /\ \A a \in 1..Len(md.antar) :
                  /\ LordsOf(md.antar[a].pratyantar) = CycleFrom(md.antar[a].lord)
                  /\ {md.antar[a].pratyantar[p].lord : p \in 1..Len(md.antar[a].pratyantar)}
                         = {Cycle[n] : n \in 1..9}
                  /\ Len(md.antar[a].pratyantar) = 9

C5_Witness ==
    /\ pc = "done" /\ Len(sequence) >= 2
    /\ \E k \in 1..Len(sequence) :
          /\ sequence[k].lord = "Saturn"
          /\ LordsOf(sequence[k].antar)[2] = "Mercury"
          /\ LordsOf(sequence[k].antar)[3] = "Ketu"
          /\ LordsOf(sequence[k].antar[9].pratyantar)[1] = "Jupiter"
          /\ LordsOf(sequence[k].antar[9].pratyantar)[4] = "Ketu"

\* C6: for a moon longitude in nakshatra idx with elapsed fraction
\* f = r / NAK_LEN_DEG, the first Major node has lord LORDS[idx mod 9], starts
\* at the birth instant and has duration min(D * (1 - f), totalYears * YEAR_MS),
\* D being the lord's full period.
C6_AnchorPeriod ==
    (Valid /\ sequence # <<>>) =>
        LET lord == LordAt(NakIdx)
            D == YEARS[lord] * YEAR_MS * SubMs
        IN  /\ moonSiderealDeg >= 0 /\ moonSiderealDeg < 27 * NAK_LEN_DEG =>
                  moonSiderealDeg = NakIdx * NAK_LEN_DEG + NakRem
            /\ sequence[1].lord = lord
            /\ sequence[1].start = birthMs
            /\ NAK_LEN_DEG * sequence[1].days =
                   Smaller(D * (NAK_LEN_DEG - NakRem),
                           NAK_LEN_DEG * totalYears * YEAR_MS * SubMs)

C6_Witness ==
    /\ Valid /\ pc = "done" /\ totalYears > 0
    /\ moonSiderealDeg < 0
    /\ Len(sequence) >= 2
    /\ sequence[1].days < YearSteps * sequence[1].years
    /\ sequence[1].lord = "Rahu"

\* C7: a call with a non-positive totalYears or an out-of-range longitude is
\* rejected before any tree construction; no Major node is built or returned.
C7_InvalidInputRejected ==
    (totalYears <= 0 \/ moonSiderealDeg < 0 \/ moonSiderealDeg >= FULL_CIRCLE) =>
        (sequence = <<>> /\ pc # "done")

\* C8: with totalYears > 0, if the anchor period's natural end is at or
\* beyond the horizon the returned schedule is exactly one Major node, of the
\* starting lord, ending at capEnd; otherwise it has at least two.
C8_AnchorAloneOrMore ==
    (Valid /\ pc = "done" /\ totalYears > 0) =>
        IF YEARS[LordAt(NakIdx)] * (NAK_LEN_DEG - NakRem) >= NAK_LEN_DEG * totalYears
        THEN /\ Len(sequence) = 1
             /\ sequence[1].lord = LordAt(NakIdx)
             /\ sequence[1].end = HorizonMs
        ELSE Len(sequence) >= 2

C8_Witness ==
    /\ Valid /\ pc = "done" /\ totalYears > 0
    /\ Len(sequence) = 1
    /\ sequence[1].days = YearSteps * sequence[1].years

\* C9: buildWeightedSegments returns one segment per lord in input order;
\* every segment but the last lasts parentDur * weight / sum of the weights,
\* the last lasts parentStart + parentDur minus the running cursor; Ketu 7,
\* Venus 20, Sun 6 over a span of 33 give 7, 20 and 6.
C9_SegmentsProportionalThenRemainder ==
    pc = "segDone" =>
        LET n == Len(segArgs.order)
            total == reduce(segArgs.order, YEARS)
        IN  /\ Len(segOut) = n
            /\ LordsOf(segOut) = segArgs.order
            /\ \A k \in 1..(n - 1) :
                  segOut[k].durationMs * total <= segArgs.parentDurMs * YEARS[segArgs.order[k]]
                  /\ (segOut[k].durationMs + 1) * total > segArgs.parentDurMs * YEARS[segArgs.order[k]]
            /\ segOut[n].durationMs =
                  segArgs.parentStartMs + segArgs.parentDurMs - segOut[n].startMs
            /\ \A k \in 1..n :
                  /\ segOut[k].endMs = segOut[k].startMs + segOut[k].durationMs
                  /\ segOut[k].startMs = IF k = 1 THEN segArgs.parentStartMs ELSE segOut[k - 1].endMs
            /\ (segArgs.order = <<"Ketu", "Venus", "Sun">> /\ segArgs.parentDurMs = 33) =>
                  [k \in 1..3 |-> segOut[k].durationMs] = <<7, 20, 6>>

C9_Witness ==
    /\ pc = "segDone"
    /\ segArgs.order = <<"Ketu", "Venus", "Sun">>
    /\ segArgs.parentDurMs = 33
    /\ segArgs.parentStartMs > 0
    /\ segOut[3].durationMs = 6

\* C10: for totalYears > 0 the Major-generation loop terminates: every
\* iteration emits one node that does not pass the horizon, the start cursor
\* strictly increases on every iteration that does not leave the loop, the
\* loop is left by emitting one node clipped at the horizon, and a valid
\* call always reaches its return.
C10_LoopTerminates ==
    /\ [][(InLoop /\ totalYears > 0) =>
            /\ Len(sequence') = Len(sequence) + 1
            /\ SubSeq(sequence', 1, Len(sequence)) = sequence
            /\ Last(sequence').end <= HorizonMs
            /\ IF pc' = "done"
               THEN Last(sequence').end = HorizonMs
               ELSE InLoop' /\ mdStartMs' > mdStartMs /\ mdStartMs' <= capEnd]_vars
    /\ [][pc = "done" => UNCHANGED sequence]_vars
    /\ (Valid /\ totalYears > 0) ~> (pc = "done")

C10_Witness ==
    /\ Valid /\ pc = "done" /\ totalYears > 0
    /\ Len(sequence) >= 12
    /\ Last(sequence).end = HorizonMs

====
